---- MODULE Spec2Model ----
(***************************************************************************)
(* A model of lice (creachadair/lice): the license registry, the text      *)
(* block normaliser and indenter, template rendering, and the program's    *)
(* -write and -edit paths.                                                 *)
(*                                                                         *)
(* A Go string is a sequence of one-character strings.  A template action  *)
(* such as {{.Author}} is one element of that sequence: it begins with "{" *)
(* and ends with "}", so trimming, tab expansion and the leading-space     *)
(* scan treat it as one non-whitespace character.                          *)
(***************************************************************************)
EXTENDS Integers, Sequences, FiniteSets, TLC

VARIABLES
    \* ---- text blocks (licenses/text.go) ----
    tpc,        \* position of the text pipeline
    text,       \* the raw text given to cleanup
    blk,        \* lines of cleanup(text)
    blk2,       \* lines of cleanup(cleanup(text).String())
    style,      \* key of the Indenting applied
    wrapped,    \* lines after Indenting.fix
    \* ---- registry (licenses/registry.go) ----
    known,      \* global.known
    rop,        \* the call in progress: "none", "Register", "Lookup"
    rlic,       \* lic of Register and insert
    rslug,      \* slug of lookup
    rpc,        \* "idle", "lookup" (inside the loop of lookup), "found"
    li,         \* i of lookup
    lj,         \* j of lookup
    rret,       \* what the last call returned
    registered, \* the licenses whose Register call returned normally
    visited,    \* the licenses the last List passed to f, in order
    \* ---- License.WriteText into a buffer (licenses.go) ----
    wpc,        \* "call", "done"
    wlic,       \* the license rendered
    wcfg,       \* the Config
    wout,       \* what the writer received
    werr,       \* the error returned: "nil", "parse", "exec"
    \* ---- main (lice.go) ----
    mpc,        \* position of main
    flags,      \* the command line: list, slug, view, write, force, edit, args, style
    mlic,       \* lic
    files,      \* the file system: path -> file
    files0,     \* the file system when the program started
    stdout,     \* what was written to os.Stdout
    hasErr,     \* hasErr
    argi,       \* index in flag.Args() of the file being edited
    mfail,      \* the message of log.Fatal, "" while there is none
    merr,       \* err of lic.WriteText(f, cfg) in main
    \* ---- License.EditFile (licenses.go) ----
    epc,        \* position of EditFile
    epath,      \* f.Name()
    etmp,       \* tmp.Name(), NoPath before CreateTemp returned one
    ehdr,       \* clean.String(), the template of the annotation
    eerr,       \* err
    ecerr,      \* cerr
    eret,       \* the error EditFile returns, "nil" for none
    efiles      \* the file system when EditFile was called

textVars == <<tpc, text, blk, blk2, style, wrapped>>

regVars == <<known, rop, rlic, rslug, rpc, li, lj, rret, registered, visited>>

renderVars == <<wpc, wlic, wcfg, wout, werr>>

mainVars == <<mpc, flags, mlic, files, files0, stdout, hasErr, argi, mfail, merr>>

editVars == <<epc, epath, etmp, ehdr, eerr, ecerr, eret, efiles>>

vars == <<textVars, regVars, renderVars, mainVars, editVars>>

----------------------------------------------------------------------------
(* Bounds *)

\* Longest raw text enumerated for the text pipeline.
MaxLen == 4

----------------------------------------------------------------------------
(* Characters *)

SP == " "
TAB == "\t"
CR == "\r"
NL == "\n"
FF == "\f"

\* The cutset of strings.TrimRight in trimSpace and indent.
Cutset == {SP, TAB, CR, NL}

\* unicode.IsSpace: the cutset characters and further white space, of which
\* the form feed is the representative here.
IsSpace(c) == c \in {SP, TAB, CR, NL, FF}

\* Characters of the enumerated raw texts.
TextChars == {SP, TAB, CR, NL, FF, "a", "b"}

Strings(n) == UNION {[1..k -> TextChars] : k \in 0..n}

----------------------------------------------------------------------------
(* strings helpers *)

Min(S) == CHOOSE x \in S : \A y \in S : x <= y

\* strings.Split(s, "\n")
RECURSIVE Split(_)
Split(s) ==
    LET idx == {k \in 1..Len(s) : s[k] = NL}
    IN  IF idx = {} THEN <<s>>
        ELSE LET k == Min(idx)
             IN  <<SubSeq(s, 1, k - 1)>> \o Split(SubSeq(s, k + 1, Len(s)))

\* strings.Join(lines, "\n")
RECURSIVE Join(_)
Join(lines) ==
    IF lines = <<>> THEN <<>>
    ELSE IF Len(lines) = 1 THEN lines[1]
    ELSE lines[1] \o <<NL>> \o Join(Tail(lines))

\* strings.TrimRight(s, " \t\r\n")
RECURSIVE TrimRight(_)
TrimRight(s) ==
    IF s # <<>> /\ s[Len(s)] \in Cutset THEN TrimRight(SubSeq(s, 1, Len(s) - 1))
    ELSE s

\* strings.Repeat(" ", n)
Repeat(n) == [k \in 1..n |-> SP]

\* strings.Replace(s, "\t", spaces, -1)
RECURSIVE ReplaceTabs(_, _)
ReplaceTabs(s, spaces) ==
    IF s = <<>> THEN <<>>
    ELSE (IF Head(s) = TAB THEN spaces ELSE <<Head(s)>>) \o ReplaceTabs(Tail(s), spaces)

HasPrefix(s, p) == Len(p) <= Len(s) /\ SubSeq(s, 1, Len(p)) = p

HasSuffix(s, p) == Len(p) <= Len(s) /\ SubSeq(s, Len(s) - Len(p) + 1, Len(s)) = p

\* strings.TrimSuffix(s, p): what leftJust would call by mistake.
TrimSuffix(s, p) == IF HasSuffix(s, p) THEN SubSeq(s, 1, Len(s) - Len(p)) ELSE s

\* strings.TrimPrefix(s, p)
TrimPrefix(s, p) == IF HasPrefix(s, p) THEN SubSeq(s, Len(p) + 1, Len(s)) ELSE s

----------------------------------------------------------------------------
(* block (licenses/text.go) *)

newBlock(s) == Split(s)

trimSpace(lines) ==
    LET t == [k \in 1..Len(lines) |-> TrimRight(lines[k])]
        n == Len(t)
        lead == {k \in 1..n : t[k] # <<>>}
        i == IF lead = {} THEN n + 1 ELSE Min(lead)
        j == IF lead = {} THEN n ELSE CHOOSE k \in lead : \A m \in lead : m <= k
    IN  SubSeq(t, i, j)

DefaultTabWidth == 4

untabify(lines, width) ==
    LET w == IF width <= 0 THEN DefaultTabWidth ELSE width
        spaces == Repeat(w)
    IN  [k \in 1..Len(lines) |-> ReplaceTabs(lines[k], spaces)]

RECURSIVE leftSpace(_)
leftSpace(s) ==
    IF s = <<>> \/ ~IsSpace(Head(s)) THEN <<>>
    ELSE <<Head(s)>> \o leftSpace(Tail(s))

\* The lines leftJust lets compete for the minimum.
leftJustCounts(line) == line # <<>>

\* min of leftJust: the leading space of the first line whose leading space
\* is strictly shorter than that of every counted line before it.
leftJustMin(lines) ==
    LET cand == {k \in 1..Len(lines) : leftJustCounts(lines[k])}
        best == CHOOSE k \in cand :
                    \A m \in cand :
                        \/ Len(leftSpace(lines[k])) < Len(leftSpace(lines[m]))
                        \/ Len(leftSpace(lines[k])) = Len(leftSpace(lines[m])) /\ k <= m
    IN  leftSpace(lines[best])

leftJust(lines) ==
    IF \E k \in 1..Len(lines) : leftJustCounts(lines[k])
    THEN LET min == leftJustMin(lines)
         IN  [k \in 1..Len(lines) |-> TrimPrefix(lines[k], min)]
    ELSE lines

\* A faulty variant of indentSkips: every blank line is left alone.
indentSkipsAnyBlank(lines, i) == lines[i] = <<>>

indentSkips(lines, i) == lines[i] = <<>> /\ i = Len(lines)

indent(lines, ind) ==
    [i \in 1..Len(lines) |->
        IF indentSkips(lines, i) THEN lines[i] ELSE TrimRight(ind \o lines[i])]

prepend(lines, s) == <<s>> \o lines

append(lines, s) == lines \o <<s>>

String(lines) == Join(lines)

\* Indenting rules: kind "nil" is the nil Indenting.
IPrefix(marker) == [kind |-> "prefix", rest |-> marker, first |-> <<>>, last |-> <<>>]

IComment(first, rest, last) == [kind |-> "comment", rest |-> rest, first |-> first, last |-> last]

INil == [kind |-> "nil", rest |-> <<>>, first |-> <<>>, last |-> <<>>]

fix(in, b) ==
    IF in.kind = "nil" THEN b
    ELSE IF in.kind = "prefix" THEN indent(b, in.rest)
    ELSE append(prepend(indent(b, in.rest), in.first), in.last)

\* cleanup of licenses.go
cleanup(s) == leftJust(untabify(trimSpace(newBlock(s)), 0))

\* The indent table of the program; "none" and "guess" have no entry.
indentTable ==
    [hash |-> IPrefix(<<"#", SP>>),
     slash |-> IPrefix(<<"/", "/", SP>>),
     star |-> IComment(<<"/", "*">>, <<SP, SP, SP>>, <<SP, "*", "/">>),
     sstar |-> IComment(<<"/", "*">>, <<SP, "*", SP>>, <<SP, "*", "/">>),
     xml |-> IComment(<<"<", "!", "-", "-">>, <<SP, SP, SP>>, <<SP, SP, "-", "-", ">">>)]

Styles == {"hash", "slash", "star", "sstar", "xml", "none"}

indentOf(key) == IF key \in DOMAIN indentTable THEN indentTable[key] ELSE INil

----------------------------------------------------------------------------
(* License values *)

\* type License
License(name, slug, txt, perFile) ==
    [Name |-> name, Slug |-> slug, URL |-> "", Text |-> txt, PerFile |-> perFile]

\* The zero License, standing where no license is held.
NoLicense == License("", <<>>, <<>>, <<>>)

\* type Config; Time is held as the year that the layout "2006" prints.
Config(author, project, year) == [Author |-> author, Project |-> project, Time |-> year]

NoConfig == Config(<<>>, <<>>, <<>>)

\* Files.  A path is a name and a number: 0 for the name itself, n > 0 for
\* the n-th name os.CreateTemp can make from the pattern name + "~*".
Path(name) == <<name, 0>>

TempPath(name, n) == <<name, n>>

NoPath == <<"", 0>>

File(data) == [exists |-> TRUE, data |-> data]

Absent == [exists |-> FALSE, data |-> <<>>]

PathNames == {"LICENSE", "a.go", "b.c"}

\* Temporary names available to CreateTemp for each path.
MaxTemps == 2

Paths == {<<name, n>> : name \in PathNames, n \in 0..MaxTemps}

NoFiles == [p \in Paths |-> Absent]

\* The command line: -list, -L, -view, -write, -f, -edit, the arguments, -i.
Flags(list, slug, view, write, force, edit, args, styleKey) ==
    [list |-> list, slug |-> slug, view |-> view, write |-> write,
     force |-> force, edit |-> edit, args |-> args, style |-> styleKey]

NoFlags == Flags(FALSE, <<>>, <<>>, "", FALSE, FALSE, <<>>, "guess")

\* What a registry call gave its caller: kind "license" with the copy that
\* fetch returns, kind "nil" for the nil *License, "ok" for a normal return
\* of Register, "panic-empty" and "panic-duplicate" for its panics.
Ret(kind) == [kind |-> kind, lic |-> NoLicense]

RetLicense(lic) == [kind |-> "license", lic |-> lic]

Nil == Ret("nil")

----------------------------------------------------------------------------
(* The text pipeline: cleanup, cleanup again, Indenting.fix *)

TextIdle ==
    /\ tpc = "off"
    /\ text = <<>>
    /\ blk = <<>>
    /\ blk2 = <<>>
    /\ style = "none"
    /\ wrapped = <<>>

RegIdle ==
    /\ known = <<>>
    /\ rop = "none"
    /\ rlic = NoLicense
    /\ rslug = <<>>
    /\ rpc = "idle"
    /\ li = 0
    /\ lj = 0
    /\ rret = Ret("none")
    /\ registered = {}
    /\ visited = <<>>

RenderIdle ==
    /\ wpc = "off"
    /\ wlic = NoLicense
    /\ wcfg = NoConfig
    /\ wout = <<>>
    /\ werr = "nil"

MainIdle ==
    /\ mpc = "off"
    /\ flags = NoFlags
    /\ mlic = NoLicense
    /\ files = NoFiles
    /\ files0 = NoFiles
    /\ stdout = <<>>
    /\ hasErr = FALSE
    /\ argi = 0
    /\ mfail = ""
    /\ merr = "nil"

EditIdle ==
    /\ epc = "off"
    /\ epath = NoPath
    /\ etmp = NoPath
    /\ ehdr = <<>>
    /\ eerr = "nil"
    /\ ecerr = "nil"
    /\ eret = "nil"
    /\ efiles = NoFiles

TextInit ==
    /\ tpc = "input"
    /\ text \in Strings(MaxLen)
    /\ blk = <<>>
    /\ blk2 = <<>>
    /\ style = "none"
    /\ wrapped = <<>>
    /\ RegIdle
    /\ RenderIdle
    /\ MainIdle
    /\ EditIdle

T_Cleanup ==
    /\ tpc = "input"
    /\ blk' = cleanup(text)
    /\ tpc' = "clean"
    /\ UNCHANGED <<text, blk2, style, wrapped, regVars, renderVars, mainVars, editVars>>

T_Recleanup ==
    /\ tpc = "clean"
    /\ blk2' = cleanup(String(blk))
    /\ tpc' = "reclean"
    /\ UNCHANGED <<text, blk, style, wrapped, regVars, renderVars, mainVars, editVars>>

T_Indent ==
    /\ tpc = "clean"
    /\ \E key \in Styles :
        /\ style' = key
        /\ wrapped' = fix(indentOf(key), blk)
    /\ tpc' = "indented"
    /\ UNCHANGED <<text, blk, blk2, regVars, renderVars, mainVars, editVars>>

TextNext == T_Cleanup \/ T_Recleanup \/ T_Indent

TextSpec == TextInit /\ [][TextNext]_vars

----------------------------------------------------------------------------
(* registry (licenses/registry.go) *)

\* The characters of slugs in byte order; Go compares strings bytewise.
Alphabet == <<"-", "3", "a", "b", "c", "d", "e", "f", "i", "m", "p", "r", "s", "t", "x">>

Ord(c) == CHOOSE k \in 1..Len(Alphabet) : Alphabet[k] = c

\* s < t on Go strings
RECURSIVE StrLess(_, _)
StrLess(s, t) ==
    IF t = <<>> THEN FALSE
    ELSE IF s = <<>> THEN TRUE
    ELSE IF Head(s) = Head(t) THEN StrLess(Tail(s), Tail(t))
    ELSE Ord(Head(s)) < Ord(Head(t))

\* m := (i + j) / 2
Mid(i, j) == (i + j) \div 2

\* The slug < cur branch of lookup: j = m.
lookupLowerHalf(m) == m

\* A faulty variant of insertAt: the new license goes to the front.
insertAtFront(k, i, lic) == <<lic>> \o k

\* append(append(r.known[:i], lic), r.known[i:]...) with i counted from 0.
\* r.known[:i] keeps the capacity of r.known, so for i < len the inner append
\* stores lic into the backing array at i before r.known[i:] is read: the
\* license that was at i is lost and lic appears twice.
insertAt(k, i, lic) ==
    IF i >= Len(k) THEN Append(k, lic)
    ELSE SubSeq(k, 1, i) \o <<lic, lic>> \o SubSeq(k, i + 2, Len(k))

\* A faulty variant of insert: a duplicate replaces the license registered
\* first.
insertReplacing(k, i, ok, lic) ==
    IF ok THEN [known |-> [k EXCEPT ![i + 1] = lic], ok |-> TRUE]
    ELSE [known |-> insertAt(k, i, lic), ok |-> TRUE]

\* insert after lookup returned (i, ok)
insert(k, i, ok, lic) ==
    IF ok THEN [known |-> k, ok |-> FALSE]
    ELSE [known |-> insertAt(k, i, lic), ok |-> TRUE]

\* fetch after lookup returned (i, ok)
fetch(k, i, ok) == IF ok THEN RetLicense(k[i + 1]) ELSE Nil

\* lookup has left its loop: by return m, true or by i > j.
LookupDone == rpc = "found" \/ (rpc = "lookup" /\ li > lj)

LookupOk == rpc = "found"

\* The slugs and names the registry calls are made with.
Slugs == {<<>>, <<"a">>, <<"a", "b">>, <<"b">>, <<"c">>}

Names == {"first", "second"}

CallLicenses == {License(n, s, <<"t">>, <<>>) : n \in Names, s \in Slugs}

\* Register, up to the call of lookup in insert.  log.Panic unwinds to a
\* caller that recovers.
Register_Call ==
    /\ rpc = "idle"
    /\ \E lic \in CallLicenses :
        /\ rop' = "Register"
        /\ rlic' = lic
        /\ IF lic.Slug = <<>>
           THEN /\ rret' = Ret("panic-empty")
                /\ UNCHANGED <<rslug, rpc, li, lj>>
           ELSE /\ rslug' = lic.Slug
                /\ rpc' = "lookup"
                /\ li' = 0
                /\ lj' = Len(known) - 1
                /\ rret' = Ret("none")
    /\ UNCHANGED <<known, registered, visited, textVars, renderVars, mainVars, editVars>>

\* Lookup, up to the call of lookup in fetch.
Lookup_Call ==
    /\ rpc = "idle"
    /\ \E slug \in Slugs :
        /\ rop' = "Lookup"
        /\ rslug' = slug
    /\ rlic' = NoLicense
    /\ rpc' = "lookup"
    /\ li' = 0
    /\ lj' = Len(known) - 1
    /\ rret' = Ret("none")
    /\ UNCHANGED <<known, registered, visited, textVars, renderVars, mainVars, editVars>>

\* One iteration of the loop of lookup.
lookup_Step ==
    /\ rpc = "lookup"
    /\ li <= lj
    /\ LET m == Mid(li, lj)
           cur == known[m + 1].Slug
       IN  IF rslug = cur
           THEN rpc' = "found" /\ li' = m /\ lj' = lj
           ELSE IF StrLess(rslug, cur)
           THEN rpc' = rpc /\ li' = li /\ lj' = lookupLowerHalf(m)
           ELSE rpc' = rpc /\ li' = m + 1 /\ lj' = lj
    /\ UNCHANGED <<known, rop, rlic, rslug, rret, registered, visited, textVars, renderVars, mainVars, editVars>>

\* The rest of insert and of Register, once lookup has returned.
Register_Return ==
    /\ rop = "Register"
    /\ LookupDone
    /\ LET r == insert(known, li, LookupOk, rlic)
       IN  /\ known' = r.known
           /\ IF r.ok
              THEN rret' = Ret("ok") /\ registered' = registered \cup {rlic}
              ELSE rret' = Ret("panic-duplicate") /\ UNCHANGED registered
    /\ rpc' = "idle"
    /\ UNCHANGED <<rop, rlic, rslug, li, lj, visited, textVars, renderVars, mainVars, editVars>>

\* The rest of fetch and of Lookup, once lookup has returned.
Lookup_Return ==
    /\ rop = "Lookup"
    /\ LookupDone
    /\ rret' = fetch(known, li, LookupOk)
    /\ rpc' = "idle"
    /\ UNCHANGED <<known, rop, rlic, rslug, li, lj, registered, visited, textVars, renderVars, mainVars, editVars>>

\* List with an f that records what it is given.
List ==
    /\ rpc = "idle"
    /\ rop' = "List"
    /\ rlic' = NoLicense
    /\ rslug' = <<>>
    /\ visited' = known
    /\ rret' = Ret("none")
    /\ UNCHANGED <<known, rpc, li, lj, registered, textVars, renderVars, mainVars, editVars>>

RegInit == TextIdle /\ RegIdle /\ RenderIdle /\ MainIdle /\ EditIdle

RegNext == Register_Call \/ Lookup_Call \/ lookup_Step \/ Register_Return \/ Lookup_Return \/ List

RegSpec == RegInit /\ [][RegNext]_vars

\* A call that can take a step does: the program is one sequential thread.
RegFairSpec == RegSpec /\ WF_vars(RegNext)

----------------------------------------------------------------------------
(* Templates (text/template as used by Config.newTemplate) *)

\* Actions of the templates of the licenses.
DATE == "{{date \"2006\"}}"
AUTHOR == "{{.Author}}"
PROJECT == "{{.Project}}"
IFPROJECT == "{{if .Project}}"
END == "{{end}}"
\* An action calling a function the FuncMap does not define: Parse fails.
BADFUNC == "{{nofunc}}"
\* An action reading a field Config does not have: Execute fails there.
NOFIELD == "{{.Missing}}"

\* Nesting of if/end before token k of t.
IfDepth(t, k) ==
    Cardinality({i \in 1..(k - 1) : t[i] = IFPROJECT})
        - Cardinality({i \in 1..(k - 1) : t[i] = END})

\* template.Parse succeeds: every function is defined, no end comes without
\* its if, and every if has its end.
ParseOK(t) ==
    /\ \A k \in 1..Len(t) : t[k] # BADFUNC
    /\ \A k \in 1..Len(t) : IfDepth(t, k + 1) >= 0
    /\ IfDepth(t, Len(t) + 1) = 0

\* Token k lies inside an if whose condition is false: every if of these
\* templates tests .Project.
Skipped(t, c, k) == c.Project = <<>> /\ IfDepth(t, k) > 0

\* What executing token k writes.
Expand(t, c, k) ==
    IF t[k] \in {IFPROJECT, END} \/ Skipped(t, c, k) THEN <<>>
    ELSE IF t[k] = DATE THEN c.Time
    ELSE IF t[k] = AUTHOR THEN c.Author
    ELSE IF t[k] = PROJECT THEN c.Project
    ELSE <<t[k]>>

RECURSIVE Concat(_, _, _)
Concat(f, lo, hi) ==
    IF lo > hi THEN <<>>
    ELSE IF lo = hi THEN f[lo]
    ELSE LET m == (lo + hi) \div 2 IN Concat(f, lo, m) \o Concat(f, m + 1, hi)

\* template.Execute of a parsed template: nodes are executed in order and
\* written as they are reached; execution stops with an error at the first
\* reached action that reads a missing field.
Execute(t, c) ==
    LET bad == {k \in 1..Len(t) : t[k] = NOFIELD /\ ~Skipped(t, c, k)}
        stop == IF bad = {} THEN Len(t) + 1 ELSE Min(bad)
        parts == [k \in 1..Len(t) |-> Expand(t, c, k)]
    IN  [out |-> Concat(parts, 1, stop - 1), err |-> bad # {}]

\* Config.newTemplate and a call of the function it returns on a writer
\* that accepts everything: the bytes written and the error.
Render(txt, c) ==
    IF ~ParseOK(txt) THEN [out |-> <<>>, err |-> "parse"]
    ELSE LET r == Execute(txt, c)
         IN  [out |-> r.out, err |-> IF r.err THEN "exec" ELSE "nil"]

\* clean := cleanup(lic.Text).append("")
writeTextTail(b) == append(b, <<>>)

\* License.WriteText for a non-nil license: the template text it renders.
WriteTextTemplate(lic) == String(writeTextTail(cleanup(lic.Text)))

WriteText(lic, c) == Render(WriteTextTemplate(lic), c)

----------------------------------------------------------------------------
(* The licenses of the program.  Each line of a license text is cut down   *)
(* to a letter or two; line breaks, blank lines, indentation and template  *)
(* actions are those of the source.                                        *)

PerFileNotice == <<NL, "C", SP, DATE, SP, AUTHOR, ".", NL>>

disclaimer == <<NL, "w", NL, "d", NL>>

freetext ==
    <<NL, "c", SP, DATE, ",", SP, AUTHOR, NL, "r", NL, NL, "u", NL, "m", NL, NL,
      "1", SP, "s", NL, SP, SP, SP, "l", NL, NL,
      "2", SP, "b", NL, SP, SP, SP, "o", NL>>
    \o disclaimer
    \o <<IFPROJECT, NL, "v", NL, "e", SP, PROJECT, SP, "p", NL, END>>

bsd3text ==
    <<NL, "b", NL, NL, "c", SP, DATE, ",", SP, AUTHOR, NL, "r", NL, NL, "u", NL, "m", NL, NL,
      SP, SP, SP, SP, "1", NL, SP, SP, SP, SP, "t", NL, NL,
      SP, SP, SP, SP, "2", NL, NL,
      SP, SP, SP, SP, "3", NL>>
    \o disclaimer

mitText ==
    <<NL, "c", SP, DATE, SP, AUTHOR, NL, SP, NL, "p", NL, "t", NL, NL,
      "i", NL, NL, "w", NL>>

Slug_bsd3c == <<"b", "s", "d", "3", "c">>
Slug_freebsd == <<"f", "r", "e", "e", "b", "s", "d">>
Slug_mit == <<"m", "i", "t", "-", "e", "x", "p", "a", "t">>

bsd3c == License("Modified BSD license (3-clause)", Slug_bsd3c, bsd3text, PerFileNotice)
freebsd == License("FreeBSD software license", Slug_freebsd, freetext, PerFileNotice)
mit == License("MIT License (Expat)", Slug_mit, mitText, PerFileNotice)

\* The licenses of the packages bsd and mit.
Builtin == {bsd3c, freebsd, mit}

\* Licenses a package could register whose templates do not render: one
\* that does not parse and one whose execution fails part way.
Slug_xexec == <<"x", "-", "e", "x", "e", "c">>
Slug_xparse == <<"x", "-", "p", "a", "r", "s", "e">>

xexec == License("fails in Execute", Slug_xexec, <<"t", NL, NOFIELD, NL>>, <<"C", SP, NOFIELD, NL>>)
xparse == License("fails in Parse", Slug_xparse, <<"t", NL, BADFUNC, NL>>, <<"C", SP, IFPROJECT, NL>>)

----------------------------------------------------------------------------
(* License.WriteText on a buffer *)

Authors == {<<>>, <<"A">>, <<"A", SP, "B">>}

Projects == {<<>>, <<"P">>}

Years == {<<"2", "0", "1", "8">>, <<"2", "0", "2", "6">>}

Configs == {Config(a, p, y) : a \in Authors, p \in Projects, y \in Years}

RenderInit ==
    /\ TextIdle
    /\ RegIdle
    /\ MainIdle
    /\ EditIdle
    /\ wpc = "call"
    /\ wlic \in Builtin \cup {xexec, xparse}
    /\ wcfg \in Configs
    /\ wout = <<>>
    /\ werr = "nil"

W_WriteText ==
    /\ wpc = "call"
    /\ LET r == WriteText(wlic, wcfg)
       IN  wout' = r.out /\ werr' = r.err
    /\ wpc' = "done"
    /\ UNCHANGED <<wlic, wcfg, textVars, regVars, mainVars, editVars>>

RenderNext == W_WriteText

RenderSpec == RenderInit /\ [][RenderNext]_vars

----------------------------------------------------------------------------
(* License.EditFile (licenses.go) and main (lice.go) *)

Max(a, b) == IF a >= b THEN a ELSE b

\* What a writer that can fail makes of a write of data: all of it, or an
\* error after none of it, one character of it, or all but the last.
WriteOutcomes(data) ==
    {[data |-> data, err |-> FALSE]}
        \cup {[data |-> SubSeq(data, 1, k), err |-> TRUE] :
                k \in {0, 1, Len(data) - 1} \cap 0..Max(Len(data) - 1, 0)}

\* The function newTemplate returns, called on a file: the template is
\* executed into the file until it ends, fails, or a write fails.
TemplateOutcomes(txt, c) ==
    LET r == Execute(txt, c)
    IN  {[data |-> r.out, err |-> IF r.err THEN "exec" ELSE "nil"]}
            \cup {[data |-> o.data, err |-> "write"] : o \in {w \in WriteOutcomes(r.out) : w.err}}

\* filepath.Ext of the paths of the model
Ext(name) == IF name = "a.go" THEN ".go" ELSE IF name = "b.c" THEN ".c" ELSE ""

chooseIndent(name, key) ==
    IF key \in DOMAIN indentTable THEN indentTable[key]
    ELSE IF key # "guess" THEN INil
    ELSE LET e == Ext(name) IN
         IF e \in {"", ".sh", ".py", ".pl", ".rb"} THEN indentTable["hash"]
         ELSE IF e \in {".cc", ".cpp", ".go", ".java", ".js"} THEN indentTable["slash"]
         ELSE IF e \in {".c", ".h"} THEN indentTable["star"]
         ELSE IF e \in {".htm", ".html", ".xhtml"} THEN indentTable["xml"]
         ELSE INil

\* clean := indent.fix(cleanup(lic.PerFile)).append("\n"), as a string
EditFileTemplate(lic, in) == String(append(fix(in, cleanup(lic.PerFile)), <<NL>>))

\* cfg of main: Author and Time are set, Project is not.
MainConfig == Config(<<"A">>, <<>>, <<"2", "0", "1", "8">>)

\* A faulty variant of renameReached: the errors of the writes and of Close
\* are not looked at.
renameReachedAlways(err, cerr) == TRUE

\* Whether EditFile goes on to os.Rename: neither err nor cerr is set.
renameReached(err, cerr) == err = "nil" /\ cerr = "nil"

\* os.Rename(tmp.Name(), f.Name())
Rename(fs, from, to) == [fs EXCEPT ![to] = fs[from], ![from] = Absent]

\* A faulty variant of deferredRemove: nothing is deferred.
deferredRemoveMissing(fs, name) == fs

\* The deferred os.Remove(tmp.Name())
deferredRemove(fs, name) == [fs EXCEPT ![name] = Absent]

\* The registry after the init functions of the packages ran.
InitKnown == <<bsd3c, freebsd, mit, xexec, xparse>>

FlagSlugs == {<<>>, Slug_bsd3c, Slug_freebsd, Slug_mit, Slug_xexec, Slug_xparse, <<"x">>, <<"x", "x">>}

FlagSets ==
    {Flags(l, sl, v, w, f, e, a, st) :
        l \in BOOLEAN, sl \in FlagSlugs, v \in {<<>>, Slug_mit}, w \in {"", "LICENSE"},
        f \in BOOLEAN, e \in BOOLEAN, a \in {<<>>, <<"a.go">>, <<"a.go", "b.c">>},
        st \in {"guess", "none"}}

\* File systems the program starts in: a.go is there, LICENSE and b.c may
\* be, and a temporary file of an earlier, interrupted run may be.
StartFiles ==
    {[p \in Paths |->
        IF p = Path("a.go") THEN File(<<"x", NL, "y">>)
        ELSE IF p = Path("LICENSE") /\ lic THEN File(<<"o">>)
        ELSE IF p = Path("b.c") /\ bc THEN File(<<"z">>)
        ELSE IF p = TempPath("a.go", 1) /\ left THEN File(<<"#">>)
        ELSE Absent] : lic \in BOOLEAN, bc \in BOOLEAN, left \in BOOLEAN}

MainInit ==
    /\ TextIdle
    /\ RenderIdle
    /\ EditIdle
    /\ known = InitKnown
    /\ rop = "none"
    /\ rlic = NoLicense
    /\ rslug = <<>>
    /\ rpc = "idle"
    /\ li = 0
    /\ lj = 0
    /\ rret = Ret("none")
    /\ registered = {known[k] : k \in 1..Len(known)}
    /\ visited = <<>>
    /\ mpc = "start"
    /\ flags \in FlagSets
    /\ mlic = NoLicense
    /\ files \in StartFiles
    /\ files0 = files
    /\ stdout = <<>>
    /\ hasErr = FALSE
    /\ argi = 0
    /\ mfail = ""
    /\ merr = "nil"

Fatal(msg) == mpc' = "fatal" /\ mfail' = msg

\* main from flag.Parse to the call of licenses.Lookup
M_Start ==
    /\ mpc = "start"
    /\ IF flags.list
       THEN IF flags.edit \/ flags.view # <<>> \/ flags.write # ""
            THEN /\ Fatal("You may not combine")
                 /\ UNCHANGED <<flags, regVars, stdout>>
            ELSE /\ mpc' = "exit0"
                 /\ rop' = "List"
                 /\ visited' = known
                 /\ stdout' = Concat([k \in 1..Len(known) |-> known[k].Slug \o <<NL>>], 1, Len(known))
                 /\ UNCHANGED <<flags, mfail, known, rlic, rslug, rpc, li, lj, rret, registered>>
       ELSE IF flags.view = <<>> /\ flags.slug = <<>>
            THEN /\ Fatal("You must specify a license")
                 /\ UNCHANGED <<flags, regVars, stdout>>
            ELSE /\ flags' = IF flags.view # <<>> THEN [flags EXCEPT !.slug = flags.view] ELSE flags
                 /\ mpc' = "lookup"
                 /\ rop' = "Lookup"
                 /\ rslug' = flags'.slug
                 /\ rpc' = "lookup"
                 /\ li' = 0
                 /\ lj' = Len(known) - 1
                 /\ UNCHANGED <<mfail, known, rlic, rret, registered, visited, stdout>>
    /\ UNCHANGED <<mlic, files, files0, merr, hasErr, argi, textVars, renderVars, editVars>>

\* One iteration of the loop of lookup, in the Lookup that main called.
M_lookup_Step ==
    /\ mpc = "lookup"
    /\ lookup_Step

\* The return of Lookup and the check of its result.
M_Lookup_Return ==
    /\ mpc = "lookup"
    /\ LookupDone
    /\ LET r == fetch(known, li, LookupOk)
       IN  /\ rret' = r
           /\ IF r = Nil
              THEN Fatal("Unknown license type") /\ UNCHANGED mlic
              ELSE mpc' = "view" /\ mlic' = r.lic /\ UNCHANGED mfail
    /\ rpc' = "idle"
    /\ UNCHANGED <<known, rop, rlic, rslug, li, lj, registered, visited>>
    /\ UNCHANGED <<flags, files, files0, merr, stdout, hasErr, argi, textVars, renderVars, editVars>>

\* View a license.
M_View ==
    /\ mpc = "view"
    /\ IF flags.view # <<>>
       THEN LET r == WriteText(mlic, MainConfig)
            IN  /\ stdout' = stdout \o r.out
                /\ IF r.err # "nil"
                   THEN Fatal("Viewing license")
                   ELSE mpc' = "write" /\ UNCHANGED mfail
       ELSE mpc' = "write" /\ UNCHANGED <<stdout, mfail>>
    /\ UNCHANGED <<flags, mlic, files, files0, merr, hasErr, argi, textVars, regVars, renderVars, editVars>>

\* os.OpenFile(*writeFile, O_RDWR|O_CREATE|O_TRUNC [|O_EXCL], 0644)
M_WriteOpen ==
    /\ mpc = "write"
    /\ IF flags.write = ""
       THEN mpc' = "edit" /\ UNCHANGED <<files, mfail>>
       ELSE \/ /\ files[Path(flags.write)].exists => flags.force
               /\ files' = [files EXCEPT ![Path(flags.write)] = File(<<>>)]
               /\ mpc' = "writing"
               /\ UNCHANGED mfail
            \/ /\ Fatal("Opening license file")
               /\ UNCHANGED files
    /\ UNCHANGED <<flags, mlic, files0, merr, stdout, hasErr, argi, textVars, regVars, renderVars, editVars>>

\* lic.WriteText(f, cfg), f.Close() and the checks of their errors
M_WriteText ==
    /\ mpc = "writing"
    /\ LET txt == WriteTextTemplate(mlic)
           outs == IF ParseOK(txt) THEN TemplateOutcomes(txt, MainConfig)
                   ELSE {[data |-> <<>>, err |-> "parse"]}
       IN  \E o \in outs, cerr \in BOOLEAN :
            /\ files' = [files EXCEPT ![Path(flags.write)] = File(o.data)]
            /\ IF o.err # "nil" THEN Fatal("Writing license file")
               ELSE IF cerr THEN Fatal("Closing license file")
               ELSE mpc' = "edit" /\ UNCHANGED mfail
            /\ merr' = o.err
    /\ UNCHANGED <<flags, mlic, files0, stdout, hasErr, argi, textVars, regVars, renderVars, editVars>>

\* The test before the loop over flag.Args()
M_EditGate ==
    /\ mpc = "edit"
    /\ IF ~flags.edit \/ Len(flags.args) = 0 \/ mlic.PerFile = <<>>
       THEN mpc' = "exit0" /\ UNCHANGED <<hasErr, argi>>
       ELSE mpc' = "loop" /\ hasErr' = FALSE /\ argi' = 1
    /\ UNCHANGED <<flags, mlic, files, files0, merr, stdout, mfail, textVars, regVars, renderVars, editVars>>

\* The head of the loop: os.Open(path) and the call of EditFile, or the end
\* of the loop and of main.
M_Open ==
    /\ mpc = "loop"
    /\ IF argi > Len(flags.args)
       THEN /\ mpc' = IF hasErr THEN "exit1" ELSE "exit0"
            /\ UNCHANGED <<hasErr, argi, editVars>>
       ELSE LET path == Path(flags.args[argi]) IN
            \/ /\ files[path].exists
               /\ mpc' = "editfile"
               /\ epc' = "entry"
               /\ epath' = path
               /\ etmp' = NoPath
               /\ ehdr' = <<>>
               /\ eerr' = "nil"
               /\ ecerr' = "nil"
               /\ eret' = "nil"
               /\ efiles' = files
               /\ UNCHANGED <<hasErr, argi>>
            \/ /\ hasErr' = TRUE
               /\ argi' = argi + 1
               /\ UNCHANGED <<mpc, editVars>>
    /\ UNCHANGED <<flags, mlic, files, files0, merr, stdout, mfail, textVars, regVars, renderVars>>

EditStep == UNCHANGED <<mainVars, textVars, regVars, renderVars>>

EditFrame == UNCHANGED <<mpc, flags, mlic, files0, merr, stdout, hasErr, argi, mfail, textVars, regVars, renderVars>>

\* EditFile up to os.CreateTemp: the test of lic, filepath.Abs, f.Seek, the
\* template of the annotation and its parsing.
E_Entry ==
    /\ epc = "entry"
    /\ IF mlic.PerFile = <<>>
       THEN epc' = "ret" /\ eret' = "nil" /\ UNCHANGED ehdr
       ELSE \/ epc' = "ret" /\ eret' = "abs or seek" /\ UNCHANGED ehdr
            \/ LET txt == EditFileTemplate(mlic, chooseIndent(epath[1], flags.style))
               IN  /\ ehdr' = txt
                   /\ IF ParseOK(txt)
                      THEN epc' = "parsed" /\ UNCHANGED eret
                      ELSE epc' = "ret" /\ eret' = "parse"
    /\ UNCHANGED <<epath, etmp, eerr, ecerr, efiles>>
    /\ EditStep

\* os.CreateTemp and the defer of os.Remove
E_CreateTemp ==
    /\ epc = "parsed"
    /\ \/ /\ epc' = "ret" /\ eret' = "create"
          /\ UNCHANGED <<etmp, files>>
       \/ \E n \in 1..MaxTemps :
            /\ ~files[TempPath(epath[1], n)].exists
            /\ etmp' = TempPath(epath[1], n)
            /\ files' = [files EXCEPT ![TempPath(epath[1], n)] = File(<<>>)]
            /\ epc' = "tmp"
            /\ UNCHANGED eret
    /\ UNCHANGED <<epath, ehdr, eerr, ecerr, efiles>>
    /\ EditFrame

\* err = write(tmp)
E_Write ==
    /\ epc = "tmp"
    /\ \E o \in TemplateOutcomes(ehdr, MainConfig) :
        /\ files' = [files EXCEPT ![etmp] = File(o.data)]
        /\ eerr' = o.err
    /\ epc' = "written"
    /\ UNCHANGED <<epath, etmp, ehdr, ecerr, eret, efiles>>
    /\ EditFrame

\* _, err = io.Copy(tmp, f), when err == nil
E_Copy ==
    /\ epc = "written"
    /\ IF eerr = "nil"
       THEN \E o \in WriteOutcomes(files[epath].data) :
                /\ files' = [files EXCEPT ![etmp] = File(files[etmp].data \o o.data)]
                /\ eerr' = IF o.err THEN "copy" ELSE "nil"
       ELSE UNCHANGED <<files, eerr>>
    /\ epc' = "copied"
    /\ UNCHANGED <<epath, etmp, ehdr, ecerr, eret, efiles>>
    /\ EditFrame

\* err = tmp.Sync(), when err == nil
E_Sync ==
    /\ epc = "copied"
    /\ IF eerr = "nil"
       THEN \E e \in {"nil", "sync"} : eerr' = e
       ELSE UNCHANGED eerr
    /\ epc' = "synced"
    /\ UNCHANGED <<epath, etmp, ehdr, ecerr, eret, efiles>>
    /\ EditStep

\* cerr := tmp.Close()
E_Close ==
    /\ epc = "synced"
    /\ \E e \in {"nil", "close"} : ecerr' = e
    /\ epc' = "closed"
    /\ UNCHANGED <<epath, etmp, ehdr, eerr, eret, efiles>>
    /\ EditStep

\* The checks of err and cerr, and os.Rename(tmp.Name(), f.Name())
E_Rename ==
    /\ epc = "closed"
    /\ IF renameReached(eerr, ecerr)
       THEN \/ /\ files' = Rename(files, etmp, epath)
               /\ eret' = "nil"
            \/ /\ eret' = "rename"
               /\ UNCHANGED files
       ELSE /\ eret' = IF eerr # "nil" THEN eerr ELSE ecerr
            /\ UNCHANGED files
    /\ epc' = "deferred"
    /\ UNCHANGED <<epath, etmp, ehdr, eerr, ecerr, efiles>>
    /\ EditFrame

\* The deferred os.Remove(tmp.Name()), run as EditFile returns
E_Deferred ==
    /\ epc = "deferred"
    /\ files' = deferredRemove(files, etmp)
    /\ epc' = "ret"
    /\ UNCHANGED <<epath, etmp, ehdr, eerr, ecerr, eret, efiles>>
    /\ EditFrame

\* The return of EditFile into the loop of main
M_EditReturn ==
    /\ mpc = "editfile"
    /\ epc = "ret"
    /\ hasErr' = (hasErr \/ eret # "nil")
    /\ argi' = argi + 1
    /\ mpc' = "loop"
    /\ epc' = "off"
    /\ UNCHANGED <<epath, etmp, ehdr, eerr, ecerr, eret, efiles>>
    /\ UNCHANGED <<flags, mlic, files, files0, merr, stdout, mfail, textVars, regVars, renderVars>>

Running == mpc \in {"start", "lookup", "view", "write", "writing", "edit", "loop", "editfile"}

\* The process is interrupted: nothing more runs, no deferred call either.
Crash ==
    /\ Running
    /\ mpc' = "crashed"
    /\ UNCHANGED <<flags, mlic, files, files0, merr, stdout, hasErr, argi, mfail>>
    /\ UNCHANGED <<textVars, regVars, renderVars, editVars>>

MainNext ==
    \/ M_Start \/ M_lookup_Step \/ M_Lookup_Return \/ M_View \/ M_WriteOpen \/ M_WriteText
    \/ M_EditGate \/ M_Open \/ E_Entry \/ E_CreateTemp \/ E_Write \/ E_Copy \/ E_Sync
    \/ E_Close \/ E_Rename \/ E_Deferred \/ M_EditReturn \/ Crash

MainSpec == MainInit /\ [][MainNext]_vars

----------------------------------------------------------------------------
(* Claims about the text pipeline (TextSpec) *)

NonBlank(line) == line # <<>>

ZeroLead(line) == leftSpace(line) = <<>>

Lines(b) == {b[k] : k \in 1..Len(b)}

\* C6: normalization is idempotent: normalising the text of a normalised
\* block gives the same text again, for every raw text.
C6_NormalizeIdempotent ==
    tpc = "reclean" => String(blk2) = String(blk)

BodyABlankB == <<<<"a">>, <<>>, <<"b">>>>

\* C7 as claimed: the prefix rule with marker "# " on the lines a, blank, b
\* leaves the interior blank line empty.
C7_PrefixBlankStaysEmpty ==
    (tpc = "indented" /\ style = "hash" /\ blk = BodyABlankB)
        => wrapped = <<<<"#", SP, "a">>, <<>>, <<"#", SP, "b">>>>

\* C7 as amended: the prefix rule with marker "# " on the lines a, blank, b
\* yields "# a", "#", "# b": the interior blank line becomes the marker with
\* its trailing space trimmed.
C7_PrefixBlankIsMarker ==
    (tpc = "indented" /\ style = "hash" /\ blk = BodyABlankB)
        => wrapped = <<<<"#", SP, "a">>, <<"#">>, <<"#", SP, "b">>>>

C7_Witness ==
    tpc = "indented" /\ style = "hash" /\ blk = BodyABlankB /\ Len(wrapped) = 3

OnlyCutsetSpace(s) == \A k \in 1..Len(s) : s[k] # FF

----------------------------------------------------------------------------
(* Claims about the registry (RegSpec, RegFairSpec) *)

SlugRegistered(slug) == \E l \in registered : l.Slug = slug

FirstRegistered(slug) == CHOOSE l \in registered : l.Slug = slug

\* C3: Lookup of a slug that is not registered returns nil, whatever the
\* registry contains: a call of Lookup with such a slug leads to its return
\* with the nil license.
C3_LookupAbsentReturnsNil ==
    (rop = "Lookup" /\ rpc = "lookup" /\ ~SlugRegistered(rslug))
        ~> (rop = "Lookup" /\ rpc = "idle" /\ rret = Nil)

StrictlyIncreasing(k) ==
    \A a, b \in 1..Len(k) : a < b => StrLess(k[a].Slug, k[b].Slug)

\* C9: after any sequence of Register calls, List visits every registered
\* license exactly once, in strictly increasing order of slug.
C9_ListSortedOnce ==
    (rop = "List" /\ rpc = "idle")
        => /\ StrictlyIncreasing(visited)
           /\ {visited[k] : k \in 1..Len(visited)} = registered
           /\ Len(visited) = Cardinality(registered)

C9_Witness ==
    rop = "List" /\ rpc = "idle" /\ Len(visited) >= 3

\* C10: Register of a license whose slug is already registered panics and
\* leaves the registry as it was, and Lookup of a registered slug returns
\* the license registered first under it.
C10_DuplicateRejected ==
    [][/\ (rop = "Register" /\ LookupDone /\ SlugRegistered(rslug))
            => /\ known' = known
               /\ registered' = registered
               /\ rret' = Ret("panic-duplicate")
       /\ (rop = "Lookup" /\ LookupDone /\ SlugRegistered(rslug))
            => rret' = RetLicense(FirstRegistered(rslug))]_vars

\* A second license for a registered slug has just been refused, in a
\* registry of two.
C10_Witness ==
    /\ rop = "Register" /\ rpc = "idle"
    /\ rret = Ret("panic-duplicate")
    /\ rlic.Name = "second"
    /\ Len(known) = 2
    /\ \E k \in 1..Len(known) : known[k].Slug = rlic.Slug /\ known[k].Name = "first"

Holds(k, lic) == \E n \in 1..Len(k) : k[n] = lic

\* C11: registration does not depend on order: a call of Register with a
\* non-empty slug that is not registered yet, whatever slugs were registered
\* before it and in whatever order, leads to its normal return, and between
\* calls the registry holds every license registered so far.
C11_RegisterAnyOrder ==
    /\ (rop = "Register" /\ rpc = "lookup" /\ ~SlugRegistered(rslug))
            ~> (rop = "Register" /\ rpc = "idle" /\ rret = Ret("ok") /\ Holds(known, rlic))
    /\ [](rpc = "idle" => \A l \in registered : Holds(known, l))

----------------------------------------------------------------------------
(* Claims about rendering (RenderSpec) *)

EndsWith(s, c) == s # <<>> /\ s[Len(s)] = c

\* C5: for every registered license and every Config, the text WriteText
\* produces ends with exactly one newline: its last character is a newline
\* and the one before it is not.
C5_EndsWithOneNewline ==
    (wpc = "done" /\ wlic \in Builtin /\ werr = "nil")
        => /\ EndsWith(wout, NL)
           /\ ~EndsWith(SubSeq(wout, 1, Len(wout) - 1), NL)

----------------------------------------------------------------------------
(* Claims about main and EditFile (MainSpec) *)

\* The complete annotation of the file being edited, once its template is
\* known; none if the template's execution fails.
Header == Execute(ehdr, MainConfig)

Annotated == File(Header.out \o efiles[epath].data)

\* C1: from the call of EditFile to its return, and after an interruption
\* anywhere in between, the file at the original path holds either its
\* original content or the complete annotation followed by the complete
\* original content, and no other file than temporary ones has changed.
C1_OriginalOrAnnotated ==
    epc # "off"
        => /\ \/ files[epath] = efiles[epath]
              \/ ~Header.err /\ epc \in {"deferred", "ret"} /\ files[epath] = Annotated
           /\ \A p \in Paths : (p # epath /\ p[2] = 0) => files[p] = efiles[p]

\* The program was interrupted after a copy that failed part way: the
\* temporary file holds a partial copy and is left behind.
C1_Witness ==
    /\ mpc = "crashed"
    /\ epc = "copied"
    /\ eerr = "copy"
    /\ files[etmp].exists
    /\ files[etmp].data # Annotated.data
    /\ Len(files[etmp].data) > Len(Header.out)

\* C2: when EditFile returns an error after it created the temporary file,
\* the original file is unchanged and the temporary file is gone.
C2_ErrorLeavesNothing ==
    (epc = "ret" /\ eret # "nil" /\ etmp # NoPath)
        => /\ files[epath] = efiles[epath]
           /\ ~files[etmp].exists

\* EditFile returned the error of a copy that failed part way.
C2_Witness ==
    epc = "ret" /\ eret = "copy" /\ etmp # NoPath /\ ~files[etmp].exists

\* C4: when rendering a license template fails, in Parse or in Execute,
\* nothing reaches a real destination: after -write the destination file
\* is as it was before the program ran, and after -edit the target file is.
C4_RenderFailureWritesNothing ==
    /\ (mpc = "fatal" /\ mfail = "Writing license file" /\ merr \in {"parse", "exec"})
            => files[Path(flags.write)] = files0[Path(flags.write)]
    /\ (epc = "ret" /\ eret \in {"parse", "exec"})
            => files[epath] = efiles[epath]

====
